---- MODULE Spec2Model ----
(***************************************************************************)
(* Model of the Claude Code history parser (native/src/lib.rs):             *)
(* parse_claude_session (message extraction) and get_session_summary        *)
(* (streaming aggregation) over one JSONL transcript file.                  *)
(*                                                                          *)
(* A line of the file is a record                                           *)
(*   rd     : "ok" | "err"   outcome of reading it from the BufReader       *)
(*   layout : the bytes of the line as runs of equal-width characters       *)
(*   json   : what the line holds as a JSON document (None: not JSON)       *)
(* Option<T> is a sequence of length at most one; a String whose content    *)
(* is concatenated by the code is a sequence of characters.                 *)
(***************************************************************************)
EXTENDS Integers, Sequences, FiniteSets, TLC

VARIABLES file, exists, overflow_checks,
          pPc, pIdx, pMessages, pDiag, pRet,
          sPc, sIdx, sAcc, sRet

vars == <<file, exists, overflow_checks,
          pPc, pIdx, pMessages, pDiag, pRet,
          sPc, sIdx, sAcc, sRet>>

\* Longest file, in lines.
MaxLines == 3

\* &line[..line.len().min(100)]
PreviewLen == 100

\* i32::MAX, the width of every counter and token field.
MaxI32 == 2147483647

MinI32 == (-MaxI32) - 1

None == <<>>

Some(x) == <<x>>

IsSome(o) == Len(o) = 1

Unwrap(o) == o[1]

\* Option::unwrap_or_else(|| "unknown".to_string())
UnwrapOrUnknown(o) == IF IsSome(o) THEN o[1] ELSE "unknown"

----------------------------------------------------------------------------
(* Text of a line: runs [cls, w, n] of n characters of w bytes each.        *)

Run(cls, w, n) == [cls |-> cls, w |-> w, n |-> n]

RECURSIVE ByteLen(_)
\* str::len
ByteLen(layout) ==
    IF layout = <<>> THEN 0
    ELSE Head(layout).w * Head(layout).n + ByteLen(Tail(layout))

RECURSIVE IsCharBoundary(_, _)
\* str::is_char_boundary: offset 0, the end, or the first byte of a character
IsCharBoundary(layout, i) ==
    IF i = 0 THEN TRUE
    ELSE IF layout = <<>> THEN FALSE
    ELSE LET r == Head(layout)
             span == r.w * r.n
         IN IF i < span THEN i % r.w = 0
            ELSE IsCharBoundary(Tail(layout), i - span)

\* line.trim().is_empty()
TrimIsEmpty(layout) == \A k \in 1..Len(layout) : layout[k].cls = "ws"

\* &line[..line.len().min(100)]: the slice panics off a character boundary
Min(a, b) == IF a < b THEN a ELSE b

PreviewEnd(layout) == Min(ByteLen(layout), PreviewLen)

PreviewPanics(layout) == ~IsCharBoundary(layout, PreviewEnd(layout))

----------------------------------------------------------------------------
(* Content model.                                                           *)

Item(kind, text) == [kind |-> kind, text |-> text]

ContentKinds == {"text", "thinking", "tool_use", "tool_result", "image"}

\* serde_json::from_value::<ContentItem>: the tag must name a variant
DecodeItemOk(v) == v.kind \in ContentKinds

RECURSIVE CollectItems(_)
\* arr.into_iter().map(from_value).collect::<Result<Vec<_>, _>>()
CollectItems(arr) ==
    IF arr = <<>> THEN [ok |-> TRUE, items |-> <<>>]
    ELSE IF ~DecodeItemOk(Head(arr)) THEN [ok |-> FALSE, items |-> <<>>]
    ELSE LET rest == CollectItems(Tail(arr))
         IN IF rest.ok THEN [ok |-> TRUE, items |-> <<Head(arr)>> \o rest.items]
            ELSE [ok |-> FALSE, items |-> <<>>]

\* deserialize_content: string -> one Text item, array -> its items, else error
deserialize_content(v) ==
    CASE v.shape = "string" -> [ok |-> TRUE, items |-> <<Item("text", v.s)>>]
      [] v.shape = "array"  -> CollectItems(v.items)
      [] OTHER              -> [ok |-> FALSE, items |-> <<>>]

\* parse_jsonl_line: serde_json::from_str::<RawLogEntry>
parse_jsonl_line(line) ==
    IF ~IsSome(line.json) THEN [ok |-> FALSE]
    ELSE LET j == Unwrap(line.json)
         IN IF ~IsSome(j.type) THEN [ok |-> FALSE]
            ELSE IF ~IsSome(j.message)
                 THEN [ok |-> TRUE,
                       entry |-> [entry_type |-> Unwrap(j.type), uuid |-> j.uuid,
                                  session_id |-> j.sessionId,
                                  timestamp |-> j.timestamp, cwd |-> j.cwd,
                                  message |-> None]]
                 ELSE LET m == Unwrap(j.message)
                          c == deserialize_content(m.content)
                      IN IF ~c.ok THEN [ok |-> FALSE]
                         ELSE [ok |-> TRUE,
                               entry |-> [entry_type |-> Unwrap(j.type),
                                          uuid |-> j.uuid,
                                          session_id |-> j.sessionId,
                                          timestamp |-> j.timestamp,
                                          cwd |-> j.cwd,
                                          message |-> Some([role |-> m.role,
                                                            content |-> c.items,
                                                            usage |-> m.usage])]]

ThinkingMarker == <<"[", "T", "h", "i", "n", "k", "i", "n", "g", "]", "\n">>

Separator == <<"\n", "\n">>

RECURSIVE FilterMapText(_)
\* .filter_map(|item| match item { Text => .., Thinking => .., _ => None })
FilterMapText(items) ==
    IF items = <<>> THEN <<>>
    ELSE LET it == Head(items)
             rest == FilterMapText(Tail(items))
         IN CASE it.kind = "text"     -> <<it.text>> \o rest
              [] it.kind = "thinking" -> <<ThinkingMarker \o it.text>> \o rest
              [] OTHER                -> rest

RECURSIVE Join(_, _)
\* [String]::join(sep)
Join(parts, sep) ==
    IF parts = <<>> THEN <<>>
    ELSE IF Len(parts) = 1 THEN parts[1]
    ELSE parts[1] \o sep \o Join(Tail(parts), sep)

ExtractSingleNewline(items) == Join(FilterMapText(items), <<"\n">>)

\* extract_text_content: Text and Thinking items, joined by "\n\n"
extract_text_content(items) == Join(FilterMapText(items), Separator)

RECURSIVE AnyKind(_, _)
\* content_items.iter().any(|item| matches!(item, <kind>))
AnyKind(items, kind) ==
    IF items = <<>> THEN FALSE
    ELSE Head(items).kind = kind \/ AnyKind(Tail(items), kind)

FirstIsThinking(items) == items # <<>> /\ Head(items).kind = "thinking"

has_thinking(items) == AnyKind(items, "thinking")

has_tool_use(items) == AnyKind(items, "tool_use")

has_images(items) == AnyKind(items, "image")

----------------------------------------------------------------------------
(* Message projector.  The fields a ClaudeMessage copies through unchanged  *)
(* and no operation reads again (raw_content, parent_id, model,             *)
(* stop_reason, cache counters, is_sidechain, user_type) are left out.      *)

ProjectAnyType(entry) == TRUE

\* entry_to_message, first guard: only user and assistant records
Projectable(entry) ==
    ~(entry.entry_type # "user" /\ entry.entry_type # "assistant")

\* entry_to_message
entry_to_message(entry) ==
    IF ~Projectable(entry) THEN None
    ELSE IF ~IsSome(entry.message) THEN None
    ELSE LET message == Unwrap(entry.message)
         IN Some([message_id    |-> UnwrapOrUnknown(entry.uuid),
                  session_id    |-> UnwrapOrUnknown(entry.session_id),
                  role          |-> message.role,
                  content       |-> extract_text_content(message.content),
                  timestamp     |-> UnwrapOrUnknown(entry.timestamp),
                  has_thinking  |-> has_thinking(message.content),
                  has_tool_use  |-> has_tool_use(message.content),
                  has_images    |-> has_images(message.content),
                  input_tokens  |-> IF IsSome(message.usage)
                                    THEN Some(Unwrap(message.usage).input_tokens)
                                    ELSE None,
                  output_tokens |-> IF IsSome(message.usage)
                                    THEN Some(Unwrap(message.usage).output_tokens)
                                    ELSE None])

----------------------------------------------------------------------------
(* The lines a transcript is made of.                                       *)

Str(s) == [shape |-> "string", s |-> s, items |-> <<>>]

Arr(items) == [shape |-> "array", s |-> <<>>, items |-> items]

NotStringNorArray == [shape |-> "other", s |-> <<>>, items |-> <<>>]

Usage(i, o) == [input_tokens |-> i, output_tokens |-> o]

Msg(role, content, usage) == [role |-> role, content |-> content, usage |-> usage]

Obj(type, uuid, sid, ts, cwd, msg) ==
    [type |-> type, uuid |-> uuid, sessionId |-> sid, timestamp |-> ts,
     cwd |-> cwd, message |-> msg]

Ascii(n) == <<Run("ascii", 1, n)>>

TextLine(layout, json) == [rd |-> "ok", layout |-> layout, json |-> json]

\* the BufReader fails to deliver the line (e.g. invalid UTF-8)
LUnreadable == [rd |-> "err", layout |-> <<>>, json |-> None]

LBlank == TextLine(<<Run("ws", 1, 2)>>, None)

\* not JSON; a 3-byte character occupies bytes 99..101
LGarbageSplit ==
    TextLine(<<Run("ascii", 1, 99), Run("multi", 3, 1), Run("ascii", 1, 10)>>, None)

\* a JSON object without "type", 120 bytes of ASCII
LNoType ==
    TextLine(Ascii(120), Some(Obj(None, Some("u0"), Some("s1"), Some("t1"), None, None)))

\* an assistant record whose content array holds an element of no variant
LBadItem ==
    TextLine(Ascii(90),
             Some(Obj(Some("assistant"), Some("u1"), Some("s1"), Some("t1"), None,
                      Some(Msg("assistant",
                               Arr(<<Item("thinking", <<"x">>), Item("bogus", <<>>)>>),
                               Some(Usage(10, 5)))))))

\* "content": 42
LContentNumber ==
    TextLine(Ascii(60),
             Some(Obj(Some("user"), Some("u2"), Some("s2"), Some("t2"), None,
                      Some(Msg("user", NotStringNorArray, None)))))

\* a user record with string content "hi", and usage
LUserHi ==
    TextLine(Ascii(80),
             Some(Obj(Some("user"), Some("u3"), Some("s1"), Some("t2"), Some("/a"),
                      Some(Msg("user", Str(<<"h", "i">>), Some(Usage(3, 3)))))))

\* a user record without message, session id or timestamp
LUserNoMsg ==
    TextLine(Ascii(20), Some(Obj(Some("user"), None, None, None, Some("/b"), None)))

LAsstThink ==
    TextLine(Ascii(110),
             Some(Obj(Some("assistant"), Some("u5"), Some("s2"), Some("t1"), None,
                      Some(Msg("assistant",
                               Arr(<<Item("text", <<"y">>), Item("tool_result", <<>>),
                                     Item("thinking", <<"x">>)>>),
                               Some(Usage(10, 5)))))))

LAsstBig ==
    TextLine(Ascii(110),
             Some(Obj(Some("assistant"), Some("u6"), None, Some("t3"), None,
                      Some(Msg("assistant",
                               Arr(<<Item("tool_use", <<>>), Item("text", <<>>),
                                     Item("text", <<"z">>), Item("image", <<>>)>>),
                               Some(Usage(MaxI32, 0)))))))

LAsstNeg ==
    TextLine(Ascii(70),
             Some(Obj(Some("assistant"), Some("u7"), None, None, None,
                      Some(Msg("assistant", Str(<<"o", "k">>),
                               Some(Usage(-10, MaxI32)))))))

\* a record of another type that carries a session id, a message and usage
LSummaryRec ==
    TextLine(Ascii(70),
             Some(Obj(Some("summary"), Some("u8"), Some("unknown"), Some("t2"), None,
                      Some(Msg("assistant",
                               Arr(<<Item("thinking", <<"w">>), Item("tool_use", <<>>)>>),
                               Some(Usage(7, 7)))))))

Lines == {LUnreadable, LBlank, LGarbageSplit, LNoType, LBadItem, LContentNumber,
          LUserHi, LUserNoMsg, LAsstThink, LAsstBig, LAsstNeg, LSummaryRec}

Files == UNION {[1..n -> Lines] : n \in 0..MaxLines}

----------------------------------------------------------------------------
(* 32-bit addition.  a + b leaves the i32 range exactly when Overflows;     *)
(* the build then panics (overflow checks on) or wraps modulo 2^32.  Which  *)
(* build runs is fixed but shows only at the first addition that overflows: *)
(* overflow_checks is "unobserved" until then, "on" or "off" afterwards.    *)

Overflows(a, b) ==
    \/ b > 0 /\ a > MaxI32 - b
    \/ b < 0 /\ a < MinI32 - b

WrappingAdd(a, b) ==
    IF ~Overflows(a, b) THEN a + b
    ELSE IF b > 0 THEN (a + MinI32) + (b + MinI32)
    ELSE ((a + MaxI32) + 1) + ((b + MaxI32) + 1)

----------------------------------------------------------------------------
(* Session aggregator: the body of the loop of get_session_summary, one     *)
(* operator per block, in the order of the code.                            *)

InitAcc ==
    [session_id |-> "unknown", message_count |-> 0, user_count |-> 0,
     assistant_count |-> 0, first_timestamp |-> None, last_timestamp |-> None,
     total_input_tokens |-> 0, total_output_tokens |-> 0,
     has_thinking_flag |-> FALSE, has_tool_use_flag |-> FALSE, cwd |-> None]

FirstSessionIdWins(acc, entry) ==
    IF IsSome(entry.session_id) /\ acc.session_id = "unknown"
    THEN [acc EXCEPT !.session_id = Unwrap(entry.session_id)]
    ELSE acc

\* if let Some(sid) = &entry.session_id { session_id = sid.clone(); }
UpdateSessionId(acc, entry) ==
    IF IsSome(entry.session_id)
    THEN [acc EXCEPT !.session_id = Unwrap(entry.session_id)]
    ELSE acc

\* if cwd.is_none() { if let Some(ref cwd_value) = entry.cwd { .. } }
CaptureCwd(acc, entry) ==
    IF ~IsSome(acc.cwd) /\ IsSome(entry.cwd)
    THEN [acc EXCEPT !.cwd = entry.cwd]
    ELSE acc

CountAssistantOnce(acc, entry) ==
    CASE entry.entry_type = "user" ->
           [acc EXCEPT !.user_count = @ + 1, !.message_count = @ + 1]
      [] entry.entry_type = "assistant" ->
           [acc EXCEPT !.assistant_count = @ + 1]
      [] OTHER -> acc

CountEveryRecord(acc, entry) ==
    [acc EXCEPT !.user_count = @ + 1, !.message_count = @ + 1]

\* match entry.entry_type.as_str() { "user" => .., "assistant" => .., _ => {} }
CountMessages(acc, entry) ==
    CASE entry.entry_type = "user" ->
           [acc EXCEPT !.user_count = @ + 1, !.message_count = @ + 1]
      [] entry.entry_type = "assistant" ->
           [acc EXCEPT !.assistant_count = @ + 1, !.message_count = @ + 1]
      [] OTHER -> acc

\* total_input_tokens += ..; total_output_tokens += ..  (assistant arm only)
TrackTokens(acc, entry, checked) ==
    IF entry.entry_type = "assistant" /\ IsSome(entry.message)
       /\ IsSome(Unwrap(entry.message).usage)
    THEN LET usage == Unwrap(Unwrap(entry.message).usage)
             a1 == [acc EXCEPT !.total_input_tokens =
                                  WrappingAdd(@, usage.input_tokens)]
             a2 == [a1 EXCEPT !.total_output_tokens =
                                  WrappingAdd(@, usage.output_tokens)]
             o1 == Overflows(acc.total_input_tokens, usage.input_tokens)
             o2 == Overflows(acc.total_output_tokens, usage.output_tokens)
         IN IF checked /\ o1
            THEN [panic |-> TRUE, overflowed |-> TRUE, acc |-> acc]
            ELSE IF checked /\ o2
            THEN [panic |-> TRUE, overflowed |-> TRUE, acc |-> a1]
            ELSE [panic |-> FALSE, overflowed |-> o1 \/ o2, acc |-> a2]
    ELSE [panic |-> FALSE, overflowed |-> FALSE, acc |-> acc]

\* if has_thinking(..) { has_thinking_flag = true; } if has_tool_use(..) { .. }
TrackFeatures(acc, entry) ==
    IF entry.entry_type = "assistant" /\ IsSome(entry.message)
    THEN LET content == Unwrap(entry.message).content
         IN [acc EXCEPT
               !.has_thinking_flag = IF has_thinking(content) THEN TRUE ELSE @,
               !.has_tool_use_flag = IF has_tool_use(content) THEN TRUE ELSE @]
    ELSE acc

TimestampsFirstFollowsLast(acc, entry) ==
    IF IsSome(entry.timestamp)
    THEN [acc EXCEPT !.first_timestamp = entry.timestamp,
                     !.last_timestamp = entry.timestamp]
    ELSE acc

\* if let Some(ts) = entry.timestamp { first once; last always }
TrackTimestamps(acc, entry) ==
    IF IsSome(entry.timestamp)
    THEN [acc EXCEPT
            !.first_timestamp = IF ~IsSome(@) THEN entry.timestamp ELSE @,
            !.last_timestamp = entry.timestamp]
    ELSE acc

\* one decoded record folded into the locals; panic: an addition overflowed
FoldEntry(acc, entry, checked) ==
    LET counted == CountMessages(CaptureCwd(UpdateSessionId(acc, entry), entry),
                                 entry)
        tok == TrackTokens(counted, entry, checked)
    IN IF tok.panic THEN tok
       ELSE [panic |-> FALSE, overflowed |-> tok.overflowed,
             acc |-> TrackTimestamps(TrackFeatures(tok.acc, entry), entry)]

\* if total > 0 { Some(total) } else { None }
ReportTotal(total) == IF total > 0 THEN Some(total) ELSE None

\* Ok(ClaudeSession { .. })
MakeSession(acc) ==
    [session_id              |-> acc.session_id,
     message_count           |-> acc.message_count,
     user_message_count      |-> acc.user_count,
     assistant_message_count |-> acc.assistant_count,
     first_timestamp         |-> acc.first_timestamp,
     last_timestamp          |-> acc.last_timestamp,
     total_input_tokens      |-> ReportTotal(acc.total_input_tokens),
     total_output_tokens     |-> ReportTotal(acc.total_output_tokens),
     has_thinking            |-> acc.has_thinking_flag,
     has_tool_use            |-> acc.has_tool_use_flag,
     cwd                     |-> acc.cwd]

----------------------------------------------------------------------------
(* The two exported operations, called one after the other on one path.     *)
(* pIdx / sIdx count the lines the iterator has handed out.                 *)

NoRet == [status |-> "none", value |-> None, reason |-> None]

OkRet(v) == [status |-> "ok", value |-> Some(v), reason |-> None]

\* Error::from_reason(format!(..)): the cause, and nothing else
ErrRet(what, n) == [status |-> "err", value |-> None, reason |-> Some(<<what, n>>)]

Terminal == {"done", "failed", "panic"}

Init ==
    /\ exists \in BOOLEAN
    /\ file \in Files
    /\ ~exists => file = <<>>
    /\ overflow_checks = "unobserved"
    /\ pPc = "start" /\ pIdx = 0 /\ pMessages = <<>> /\ pDiag = <<>>
    /\ pRet = NoRet
    /\ sPc = "start" /\ sIdx = 0 /\ sAcc = InitAcc /\ sRet = NoRet

ParseUnchanged == UNCHANGED <<file, exists, overflow_checks, sPc, sIdx, sAcc, sRet>>

Builds == IF overflow_checks = "unobserved" THEN {"on", "off"} ELSE {overflow_checks}

SummaryUnchanged == UNCHANGED <<file, exists, pPc, pIdx, pMessages, pDiag, pRet>>

\* File::open(..).map_err(..)?; let mut messages = Vec::new();
ParseOpen ==
    /\ pPc = "start"
    /\ IF exists
       THEN pPc' = "loop" /\ pRet' = pRet
       ELSE pPc' = "failed" /\ pRet' = ErrRet("Cannot open file", 0)
    /\ UNCHANGED <<pIdx, pMessages, pDiag>>
    /\ ParseUnchanged

\* line.map_err(..)?  on a line the reader could not deliver
ParseReadError ==
    /\ pPc = "loop" /\ pIdx < Len(file)
    /\ file[pIdx + 1].rd = "err"
    /\ pPc' = "failed"
    /\ pIdx' = pIdx + 1
    /\ pRet' = ErrRet("Error reading line", pIdx + 1)
    /\ UNCHANGED <<pMessages, pDiag>>
    /\ ParseUnchanged

\* if line.trim().is_empty() { continue; }
ParseBlank ==
    /\ pPc = "loop" /\ pIdx < Len(file)
    /\ file[pIdx + 1].rd = "ok"
    /\ TrimIsEmpty(file[pIdx + 1].layout)
    /\ pIdx' = pIdx + 1
    /\ UNCHANGED <<pPc, pMessages, pDiag, pRet>>
    /\ ParseUnchanged

\* Ok(entry) => if let Some(msg) = entry_to_message(entry) { messages.push(msg) }
ParseEntry ==
    /\ pPc = "loop" /\ pIdx < Len(file)
    /\ file[pIdx + 1].rd = "ok"
    /\ ~TrimIsEmpty(file[pIdx + 1].layout)
    /\ parse_jsonl_line(file[pIdx + 1]).ok
    /\ LET msg == entry_to_message(parse_jsonl_line(file[pIdx + 1]).entry)
       IN pMessages' = IF IsSome(msg) THEN Append(pMessages, Unwrap(msg))
                       ELSE pMessages
    /\ pIdx' = pIdx + 1
    /\ UNCHANGED <<pPc, pDiag, pRet>>
    /\ ParseUnchanged

\* Err(e) => two eprintln!; the second slices the line at byte min(len, 100)
ParseDecodeError ==
    /\ pPc = "loop" /\ pIdx < Len(file)
    /\ file[pIdx + 1].rd = "ok"
    /\ ~TrimIsEmpty(file[pIdx + 1].layout)
    /\ ~parse_jsonl_line(file[pIdx + 1]).ok
    /\ pIdx' = pIdx + 1
    /\ IF PreviewPanics(file[pIdx + 1].layout)
       THEN /\ pPc' = "panic"
            /\ pDiag' = Append(pDiag, [line_num |-> pIdx + 1, preview |-> None])
       ELSE /\ pPc' = pPc
            /\ pDiag' = Append(pDiag,
                   [line_num |-> pIdx + 1,
                    preview |-> Some(PreviewEnd(file[pIdx + 1].layout))])
    /\ UNCHANGED <<pMessages, pRet>>
    /\ ParseUnchanged

\* Ok(messages)
ParseReturn ==
    /\ pPc = "loop" /\ pIdx = Len(file)
    /\ pPc' = "done"
    /\ pRet' = OkRet(pMessages)
    /\ UNCHANGED <<pIdx, pMessages, pDiag>>
    /\ ParseUnchanged

\* File::open(..).map_err(..)?; the locals of get_session_summary
SummaryOpen ==
    /\ pPc \in Terminal
    /\ sPc = "start"
    /\ IF exists
       THEN sPc' = "loop" /\ sRet' = sRet
       ELSE sPc' = "failed" /\ sRet' = ErrRet("Cannot open file", 0)
    /\ UNCHANGED <<sIdx, sAcc, overflow_checks>>
    /\ SummaryUnchanged

\* if let Ok(line) = line { .. }: a line that cannot be read is passed over,
\* as are blank lines and lines parse_jsonl_line rejects
SummarySkip ==
    /\ sPc = "loop" /\ sIdx < Len(file)
    /\ \/ file[sIdx + 1].rd = "err"
       \/ TrimIsEmpty(file[sIdx + 1].layout)
       \/ ~parse_jsonl_line(file[sIdx + 1]).ok
    /\ sIdx' = sIdx + 1
    /\ UNCHANGED <<sPc, sAcc, sRet, overflow_checks>>
    /\ SummaryUnchanged

\* if let Ok(entry) = parse_jsonl_line(&line) { .. }
SummaryEntry ==
    /\ sPc = "loop" /\ sIdx < Len(file)
    /\ file[sIdx + 1].rd = "ok"
    /\ ~TrimIsEmpty(file[sIdx + 1].layout)
    /\ parse_jsonl_line(file[sIdx + 1]).ok
    /\ \E build \in Builds :
          LET r == FoldEntry(sAcc, parse_jsonl_line(file[sIdx + 1]).entry,
                             build = "on")
          IN /\ sAcc' = r.acc
             /\ sPc' = IF r.panic THEN "panic" ELSE sPc
             /\ overflow_checks' = IF r.overflowed THEN build ELSE overflow_checks
    /\ sIdx' = sIdx + 1
    /\ UNCHANGED sRet
    /\ SummaryUnchanged

\* Ok(ClaudeSession { .. })
SummaryReturn ==
    /\ sPc = "loop" /\ sIdx = Len(file)
    /\ sPc' = "done"
    /\ sRet' = OkRet(MakeSession(sAcc))
    /\ UNCHANGED <<sIdx, sAcc, overflow_checks>>
    /\ SummaryUnchanged

Next ==
    \/ ParseOpen
    \/ ParseReadError
    \/ ParseBlank
    \/ ParseEntry
    \/ ParseDecodeError
    \/ ParseReturn
    \/ SummaryOpen
    \/ SummarySkip
    \/ SummaryEntry
    \/ SummaryReturn

Spec == Init /\ [][Next]_vars

----------------------------------------------------------------------------
(* Vocabulary of the properties: what a file holds, said without running    *)
(* the two loops.                                                           *)

AllReadable == \A i \in 1..Len(file) : file[i].rd = "ok"

Decodable(l) == l.rd = "ok" /\ ~TrimIsEmpty(l.layout) /\ parse_jsonl_line(l).ok

DecodeFails(l) == l.rd = "ok" /\ ~TrimIsEmpty(l.layout) /\ ~parse_jsonl_line(l).ok

EntryOf(l) == parse_jsonl_line(l).entry

HasType(l, t) == Decodable(l) /\ EntryOf(l).entry_type = t

UserOrAssistant(l) == HasType(l, "user") \/ HasType(l, "assistant")

Qualifies(l) == UserOrAssistant(l) /\ IsSome(EntryOf(l).message)

\* the indices up to n of the lines that project, in file order
QualIdx(n) == SelectSeq([i \in 1..n |-> i], LAMBDA i : Qualifies(file[i]))

ExpectedMessages(n) ==
    LET q == QualIdx(n)
    IN [k \in 1..Len(q) |-> Unwrap(entry_to_message(EntryOf(file[q[k]])))]

Returned(ret) == Unwrap(ret.value)

SetMax(S) == CHOOSE x \in S : \A y \in S : y <= x

SetMin(S) == CHOOSE x \in S : \A y \in S : x <= y

\* C1: on a file whose lines are all readable, the messages of parse_session
\* are, in file order, the projections of exactly the non-blank, decodable
\* user/assistant lines that carry a message; every other line yields none.
\* It holds of the list under construction after every line and of the
\* list returned.
C1_MessagesAreQualifyingLines ==
    AllReadable =>
        /\ pMessages = ExpectedMessages(pIdx)
        /\ pPc = "done" => /\ pRet.status = "ok"
                           /\ Returned(pRet) = ExpectedMessages(Len(file))

C1_Witness ==
    /\ pPc = "done" /\ AllReadable /\ Len(file) = 3
    /\ Qualifies(file[1]) /\ ~Qualifies(file[2]) /\ Qualifies(file[3])
    /\ HasType(file[2], "summary")
    /\ file[1] # file[3]
    /\ Len(Returned(pRet)) = 2
    /\ Returned(pRet)[1].message_id = "u3"
    /\ Returned(pRet)[2].message_id = "u5"

\* C2: a line that fails to decode never ends parse_session: on a file that
\* opens and whose lines are all readable the call does not stop on it, each
\* such line handled has its diagnostic with the preview, and the call returns
\* the messages of the lines that project; summarize_session does not fail on
\* it either.
C2_DecodeFailureNeverTerminal ==
    (exists /\ AllReadable) =>
        /\ pPc \notin {"failed", "panic"}
        /\ \A i \in 1..pIdx :
              DecodeFails(file[i]) =>
                 \E d \in 1..Len(pDiag) :
                    /\ pDiag[d].line_num = i
                    /\ pDiag[d].preview = Some(PreviewEnd(file[i].layout))
        /\ pPc = "done" => Returned(pRet) = ExpectedMessages(Len(file))
        /\ sPc # "failed"

\* C3: a failure to open the file or to read a line is terminal for both
\* operations: once a line read has failed the call has returned a failure
\* with its cause and without a message list or a summary.
C3_ReadFailureTerminal ==
    /\ ~exists =>
          /\ pPc \in Terminal => pPc = "failed" /\ pRet.status = "err"
          /\ sPc \in Terminal => sPc = "failed" /\ sRet.status = "err"
    /\ \A i \in 1..Len(file) :
          file[i].rd = "err" =>
             /\ pIdx >= i =>
                   /\ pPc = "failed" /\ pRet.status = "err"
                   /\ pRet.value = None /\ IsSome(pRet.reason)
             /\ (sIdx >= i /\ sPc \in Terminal) =>
                   /\ sPc = "failed" /\ sRet.status = "err"
                   /\ sRet.value = None /\ IsSome(sRet.reason)

CountOfType(n, t) == Cardinality({i \in 1..n : HasType(file[i], t)})

\* C4: after any lines folded, user_count is the number of decodable "user"
\* records, assistant_count the number of decodable "assistant" records, and
\* message_count their sum; other types, blank and undecodable lines count
\* for nothing. The summary returned reports the same three numbers.
C4_Counters ==
    /\ sAcc.user_count = CountOfType(sIdx, "user")
    /\ sAcc.assistant_count = CountOfType(sIdx, "assistant")
    /\ sAcc.message_count = sAcc.user_count + sAcc.assistant_count
    /\ sPc = "done" =>
          /\ Returned(sRet).user_message_count = CountOfType(Len(file), "user")
          /\ Returned(sRet).assistant_message_count =
                CountOfType(Len(file), "assistant")
          /\ Returned(sRet).message_count =
                Returned(sRet).user_message_count
                + Returned(sRet).assistant_message_count

C4_Witness ==
    /\ sPc = "done" /\ Len(file) = 3
    /\ \E i, j, k \in 1..3 :
          /\ HasType(file[i], "user")
          /\ HasType(file[j], "summary") /\ IsSome(EntryOf(file[j]).message)
          /\ DecodeFails(file[k]) /\ file[k] = LBadItem
    /\ Returned(sRet).message_count = 1
    /\ Returned(sRet).user_message_count = 1
    /\ Returned(sRet).assistant_message_count = 0

----------------------------------------------------------------------------
(* Token totals as mathematical integers, kept as (hi, lo) in base 2^16 so  *)
(* that the sum of 32-bit values is computed without any 32-bit addition.   *)

Base == 2^16

CarriesUsage(l) ==
    /\ HasType(l, "assistant")
    /\ IsSome(EntryOf(l).message)
    /\ IsSome(Unwrap(EntryOf(l).message).usage)

UsageOf(l) == Unwrap(Unwrap(EntryOf(l).message).usage)

RECURSIVE SumHi(_, _)
SumHi(n, field) ==
    IF n = 0 THEN 0
    ELSE SumHi(n - 1, field)
         + (IF CarriesUsage(file[n]) THEN UsageOf(file[n])[field] \div Base ELSE 0)

RECURSIVE SumLo(_, _)
SumLo(n, field) ==
    IF n = 0 THEN 0
    ELSE SumLo(n - 1, field)
         + (IF CarriesUsage(file[n]) THEN UsageOf(file[n])[field] % Base ELSE 0)

MathSum(n, field) ==
    [hi |-> SumHi(n, field) + (SumLo(n, field) \div Base),
     lo |-> SumLo(n, field) % Base]

Positive(m) == m.hi > 0 \/ (m.hi = 0 /\ m.lo > 0)

Denotes(v, m) == v \div Base = m.hi /\ v % Base = m.lo

ReportsSum(reported, m) ==
    /\ IsSome(reported) <=> Positive(m)
    /\ IsSome(reported) => Denotes(Unwrap(reported), m)

\* C5: the summary's token totals are the sums of input_tokens and of
\* output_tokens over the decodable assistant records that carry usage; each
\* is reported present, with that sum, exactly when the sum is above zero, for
\* all token values of the 32-bit signed range (stated here of the files
\* whose lines are all readable).
C5_TokenTotalsAreSums ==
    (sPc = "done" /\ AllReadable) =>
          /\ ReportsSum(Returned(sRet).total_input_tokens,
                        MathSum(Len(file), "input_tokens"))
          /\ ReportsSum(Returned(sRet).total_output_tokens,
                        MathSum(Len(file), "output_tokens"))

ThinkingInJson(l) ==
    LET c == Unwrap(Unwrap(l.json).message).content
    IN c.shape = "array" /\ \E k \in 1..Len(c.items) : c.items[k].kind = "thinking"

ToolUseInJson(l) ==
    LET c == Unwrap(Unwrap(l.json).message).content
    IN c.shape = "array" /\ \E k \in 1..Len(c.items) : c.items[k].kind = "tool_use"

AssistantThinking(l) ==
    HasType(l, "assistant") /\ IsSome(EntryOf(l).message) /\ ThinkingInJson(l)

C6_State ==
    /\ \A i \in 1..pIdx :
          AssistantThinking(file[i]) => pMessages[Len(QualIdx(i))].has_thinking
    /\ pPc = "done" =>
          \A i \in 1..Len(file) :
             AssistantThinking(file[i]) => Returned(pRet)[Len(QualIdx(i))].has_thinking
    /\ sPc = "loop" =>
          \A i \in 1..sIdx : AssistantThinking(file[i]) => sAcc.has_thinking_flag
    /\ sPc = "done" =>
          \A i \in 1..Len(file) :
             AssistantThinking(file[i]) => Returned(sRet).has_thinking

C6_Step ==
    /\ sAcc.has_thinking_flag => sAcc'.has_thinking_flag
    /\ sAcc.has_tool_use_flag => sAcc'.has_tool_use_flag

\* C6: a decodable assistant record with a thinking item anywhere in its
\* content array has has_thinking true on its message and on the session
\* aggregate; has_thinking and has_tool_use of the aggregator, once true,
\* stay true over every later line.
C6_ThinkingFlags == [](C6_State) /\ [][C6_Step]_vars

C6_Witness ==
    /\ sPc = "done" /\ pPc = "done" /\ Len(file) = 3
    /\ file[1] = LAsstThink
    /\ ~FirstIsThinking(Unwrap(EntryOf(file[1]).message).content)
    /\ HasType(file[2], "assistant") /\ IsSome(EntryOf(file[2]).message)
    /\ ~ThinkingInJson(file[2]) /\ ~ToolUseInJson(file[2])
    /\ HasType(file[3], "user")
    /\ Returned(pRet)[1].has_thinking
    /\ ~Returned(pRet)[2].has_thinking
    /\ Returned(sRet).has_thinking

CarriesSid(l) == Decodable(l) /\ IsSome(EntryOf(l).session_id)

SidCarriers(n) == {i \in 1..n : CarriesSid(file[i])}

LastSid(n) ==
    IF SidCarriers(n) = {} THEN "unknown"
    ELSE Unwrap(EntryOf(file[SetMax(SidCarriers(n))]).session_id)

\* C7 (as amended): the summary's session_id is that of the last decodable
\* record, of any type, that carries one, and "unknown" when none does.
C7_LastSessionIdWins ==
    /\ sAcc.session_id = LastSid(sIdx)
    /\ sPc = "done" => Returned(sRet).session_id = LastSid(Len(file))

\* C7 (as claimed): last-write-wins, and "unknown" exactly when no decodable
\* record carries a session id.
C7_UnknownExactlyWhenNone ==
    sPc = "done" =>
       /\ Returned(sRet).session_id = LastSid(Len(file))
       /\ Returned(sRet).session_id = "unknown" <=> SidCarriers(Len(file)) = {}

C7_Witness ==
    /\ sPc = "done" /\ Len(file) = 3
    /\ CarriesSid(file[1]) /\ CarriesSid(file[2]) /\ ~CarriesSid(file[3])
    /\ HasType(file[2], "summary")
    /\ EntryOf(file[1]).session_id = Some("s2")
    /\ Returned(sRet).session_id = "unknown"

----------------------------------------------------------------------------
(* The merged text as the claim words it: the pieces of the content array   *)
(* of the JSON document, each piece after the first preceded by a blank     *)
(* line.                                                                    *)

Contributes(it) == it.kind = "text" \/ it.kind = "thinking"

Piece(it) == IF it.kind = "thinking" THEN ThinkingMarker \o it.text ELSE it.text

RECURSIVE BlankLineSeparated(_)
BlankLineSeparated(items) ==
    IF items = <<>> THEN <<>>
    ELSE LET before == BlankLineSeparated(SubSeq(items, 1, Len(items) - 1))
             last == items[Len(items)]
         IN IF ~Contributes(last) THEN before
            ELSE IF \E k \in 1..(Len(items) - 1) : Contributes(items[k])
                 THEN before \o <<"\n", "\n">> \o Piece(last)
                 ELSE Piece(last)

JsonContent(l) == Unwrap(Unwrap(l.json).message).content

MergedAsClaimed(l) ==
    IF JsonContent(l).shape = "string" THEN JsonContent(l).s
    ELSE BlankLineSeparated(JsonContent(l).items)

\* C8: the merged content of a projected message is the texts of its Text
\* items and the marker-prefixed texts of its Thinking items, in array order,
\* separated by "\n\n"; tool_use, tool_result and image items add neither
\* text nor separator; content given as a plain string s merges to s.
C8_MergedContent ==
    LET q == QualIdx(pIdx)
    IN /\ \A k \in 1..Len(pMessages) :
             Len(q) >= k => pMessages[k].content = MergedAsClaimed(file[q[k]])
       /\ pPc = "done" =>
             \A k \in 1..Len(Returned(pRet)) :
                Len(q) >= k =>
                   Returned(pRet)[k].content = MergedAsClaimed(file[q[k]])

C8_Witness ==
    /\ pPc = "done" /\ Len(file) = 3
    /\ file[1] = LAsstThink /\ file[2] = LUserHi /\ file[3] = LAsstBig
    /\ Returned(pRet)[1].content =
          <<"y", "\n", "\n", "[", "T", "h", "i", "n", "k", "i", "n", "g", "]", "\n", "x">>
    /\ Returned(pRet)[2].content = <<"h", "i">>
    /\ Returned(pRet)[3].content = <<"\n", "\n", "z">>

CarriesTs(l) == Decodable(l) /\ IsSome(EntryOf(l).timestamp)

TsCarriers(n) == {i \in 1..n : CarriesTs(file[i])}

FirstTs(n) ==
    IF TsCarriers(n) = {} THEN None
    ELSE EntryOf(file[SetMin(TsCarriers(n))]).timestamp

LastTs(n) ==
    IF TsCarriers(n) = {} THEN None
    ELSE EntryOf(file[SetMax(TsCarriers(n))]).timestamp

C9_State ==
    /\ IsSome(sAcc.first_timestamp) <=> IsSome(sAcc.last_timestamp)
    /\ sPc = "loop" =>
          /\ sAcc.first_timestamp = FirstTs(sIdx)
          /\ sAcc.last_timestamp = LastTs(sIdx)
    /\ sPc = "done" =>
          /\ Returned(sRet).first_timestamp = FirstTs(Len(file))
          /\ Returned(sRet).last_timestamp = LastTs(Len(file))
          /\ IsSome(Returned(sRet).first_timestamp)
                <=> IsSome(Returned(sRet).last_timestamp)

C9_Step == IsSome(sAcc.first_timestamp) => sAcc'.first_timestamp = sAcc.first_timestamp

\* C9: first_timestamp is set once, by the first decodable record in file
\* order that carries a timestamp, and never changes afterwards;
\* last_timestamp is that of the last such record; the values are never
\* compared, and one is absent exactly when the other is.
C9_Timestamps == [](C9_State) /\ [][C9_Step]_vars

C9_Witness ==
    /\ sPc = "done" /\ Len(file) = 3
    /\ HasType(file[1], "assistant") /\ HasType(file[2], "summary")
    /\ HasType(file[3], "user")
    /\ EntryOf(file[1]).timestamp = Some("t3")
    /\ EntryOf(file[2]).timestamp = Some("t2")
    /\ EntryOf(file[3]).timestamp = None
    /\ Returned(sRet).first_timestamp = Some("t3")
    /\ Returned(sRet).last_timestamp = Some("t2")

\* C10: on one file with all lines readable, message_count of the summary is
\* at least the number of messages parse_session returns, and equals it
\* exactly when every decodable user or assistant record carries a message.
C10_CountAtLeastMessages ==
    (pPc = "done" /\ sPc = "done") =>
       /\ AllReadable
       /\ Returned(sRet).message_count >= Len(Returned(pRet))
       /\ Returned(sRet).message_count = Len(Returned(pRet))
             <=> \A i \in 1..Len(file) :
                    UserOrAssistant(file[i]) => IsSome(EntryOf(file[i]).message)

C10_Witness ==
    /\ pPc = "done" /\ sPc = "done" /\ Len(file) = 3
    /\ \E i \in 1..3 : HasType(file[i], "user") /\ ~IsSome(EntryOf(file[i]).message)
    /\ \E i \in 1..3 : HasType(file[i], "summary")
    /\ Returned(sRet).message_count = 2
    /\ Len(Returned(pRet)) = 1

====
